---- MODULE Spec2Model ----
(***************************************************************************)
(* Model of the Kubernetes-job execution environment for custom actions    *)
(* (pkg/skaffold/actions/k8sjob/exec_env.go): construction of the          *)
(* environment, PrepareActions, createActions, createTasks,                *)
(* getArtifactToDeploy and the job-manifest composition                    *)
(* (getJobManifest = base template, overrides, defaults).                  *)
(*                                                                         *)
(* Go values that are shared by reference (maps, pointers, slice backing   *)
(* arrays) live in `heap`; a batchv1.Job struct value is a record whose    *)
(* reference-typed fields hold heap references, so that copying the struct *)
(* (`*jobManifest`) copies the references, as in Go.                       *)
(***************************************************************************)
EXTENDS Integers, Sequences, FiniteSets, TLC

VARIABLES
    env,            \* the ExecEnv built by newExecEnv
    files,          \* what LoadFromPath finds on disk: path -> template
    reachable,      \* outcome of the cluster-reachability probe
    bs,             \* PrepareActions argument: the built artifacts
    acsNames,       \* PrepareActions argument: the requested action names
    pc,             \* position inside PrepareActions / createActions
    i,              \* createActions: index of the loop over acsNames
    aCfg,           \* createActions: configuration of the current name
    jm,             \* createActions: manifest composed for the current name
    overridden,     \* the manifest as it was before setDefaultValues (history)
    builtArtifacts, \* createActions: builds by image name
    acs,            \* createActions: the actions assembled so far
    toTrack,        \* createActions: the artifacts to register
    heap,           \* Go maps, pointers and slice arrays, by reference
    result,         \* what PrepareActions returned
    probeCalls,     \* number of FailIfClusterIsNotReachable calls
    startCalls,     \* number of logger.Start calls
    composed,       \* names for which getJobManifest was called, in order
    tasked,         \* names for which createTasks was called, in order
    registered,     \* arguments of the logger.RegisterArtifacts calls, in order
    edit            \* a write made to one task's manifest after the return

vars == <<env, files, reachable, bs, acsNames, pc, i, aCfg, jm, overridden,
          builtArtifacts, acs, toTrack, heap, result, probeCalls, startCalls,
          composed, tasked, registered, edit>>

(***************************************************************************)
(* Bounds of the model.                                                    *)
(***************************************************************************)
MaxNames == 2
MaxBuilds == 2

(***************************************************************************)
(* Option values: <<>> is nil / unset, <<x>> is a set value.               *)
(***************************************************************************)
None == <<>>
Some(x) == <<x>>
NilRef == 0

RunIDLabel == "skaffold.dev/run-id"
Absent == "<absent>"
LabelKeys == {RunIDLabel, "team"}
EmptyLabels == [k \in LabelKeys |-> Absent]
RestartPolicyNever == "Never"

(***************************************************************************)
(* The heap: three typed stores, a reference is an index (0 is nil).       *)
(***************************************************************************)
EmptyHeap == [maps |-> <<>>, ints |-> <<>>, arrs |-> <<>>]

\* A resource description by value (what a YAML file or a patch result says).
\* Materialize parses it into a fresh Go object: every map, pointer and slice
\* of the result is newly allocated (an option is a sequence of 0 or 1 values).
Materialize(h, t) ==
    [heap |-> [maps |-> h.maps \o t.labels \o t.tlabels,
               ints |-> h.ints \o t.backoffLimit,
               arrs |-> Append(h.arrs, t.containers)],
     job  |-> [kind |-> t.kind, namespace |-> t.namespace,
               labels |-> IF t.labels = None THEN NilRef ELSE Len(h.maps) + 1,
               tlabels |-> IF t.tlabels = None THEN NilRef
                           ELSE Len(h.maps) + Len(t.labels) + 1,
               restartPolicy |-> t.restartPolicy,
               backoffLimit |-> IF t.backoffLimit = None THEN NilRef
                                ELSE Len(h.ints) + 1,
               containers |-> Len(h.arrs) + 1]]

\* The value a Job struct denotes in heap h.
View(j, h) ==
    [kind |-> j.kind, namespace |-> j.namespace,
     labels  |-> IF j.labels = NilRef THEN None ELSE Some(h.maps[j.labels]),
     tlabels |-> IF j.tlabels = NilRef THEN None ELSE Some(h.maps[j.tlabels]),
     restartPolicy |-> j.restartPolicy,
     backoffLimit |-> IF j.backoffLimit = NilRef THEN None ELSE Some(h.ints[j.backoffLimit]),
     containers |-> IF j.containers = NilRef THEN <<>> ELSE h.arrs[j.containers]]

NoJob == [kind |-> "none", namespace |-> "", labels |-> NilRef, tlabels |-> NilRef,
          restartPolicy |-> "", backoffLimit |-> NilRef, containers |-> NilRef]
NoView == View(NoJob, EmptyHeap)

(***************************************************************************)
(* Errors.                                                                 *)
(***************************************************************************)
NoErr == [kind |-> "nil", detail |-> ""]
Err(k, d) == [kind |-> k, detail |-> d]

(***************************************************************************)
(* newExecEnv: the namespace defaults to "default", the registry maps each *)
(* action name to the last configuration of the list that bears it.        *)
(***************************************************************************)
MaxOf(S) == CHOOSE k \in S : \A m \in S : m <= k
MinOf(S) == CHOOSE k \in S : \A m \in S : k <= m

newExecEnv(ctxNamespace, runID, acsList) ==
    LET namespace == IF ctxNamespace = "" THEN "default" ELSE ctxNamespace
    IN [namespace |-> namespace,
        kubectl |-> [Namespace |-> namespace],
        runID |-> runID,
        acsCfgByName |-> [n \in {acsList[k].Name : k \in DOMAIN acsList} |->
                             acsList[MaxOf({k \in DOMAIN acsList : acsList[k].Name = n})]]]

(***************************************************************************)
(* createActions, lines 116-120: the built artifacts by image name; a      *)
(* later entry of the list replaces an earlier one with the same name.     *)
(***************************************************************************)
BuiltArtifactsFirstWins(builds) ==
    [n \in {builds[k].ImageName : k \in DOMAIN builds} |->
        builds[MinOf({k \in DOMAIN builds : builds[k].ImageName = n})]]

BuiltArtifactsByName(builds) ==
    [n \in {builds[k].ImageName : k \in DOMAIN builds} |->
        builds[MaxOf({k \in DOMAIN builds : builds[k].ImageName = n})]]

(***************************************************************************)
(* getArtifactToDeploy.                                                    *)
(***************************************************************************)
getArtifactToDeployEmptyTag(built, cfg) ==
    IF cfg.Image \in DOMAIN built
    THEN [ImageName |-> cfg.Image, Tag |-> built[cfg.Image].Tag]
    ELSE [ImageName |-> cfg.Image, Tag |-> ""]

getArtifactToDeploy(built, cfg) ==
    LET found == cfg.Image \in DOMAIN built
        artToDeploy == [ImageName |-> cfg.Image, Tag |-> cfg.Image]
    IN IF found THEN [artToDeploy EXCEPT !.Tag = built[cfg.Image].Tag]
       ELSE artToDeploy

(***************************************************************************)
(* The collaborators of the manifest composition (package k8sjob).         *)
(***************************************************************************)
\* GetGenericJob: the built-in template, a fresh object at every call.
GenericJobTemplate ==
    [kind |-> "Job", namespace |-> "", labels |-> None, tlabels |-> None,
     restartPolicy |-> "", backoffLimit |-> None, containers |-> <<"generic">>]

GetGenericJob(h) == Materialize(h, GenericJobTemplate)

\* LoadFromPath: the parsed file, or an error when it is missing or malformed.
LoadFromPath(h, fs, path) ==
    IF path \in DOMAIN fs /\ fs[path] # None
    THEN [status |-> "ok", err |-> NoErr] @@ Materialize(h, fs[path][1])
    ELSE [status |-> "err", job |-> NoJob, heap |-> h, err |-> Err("load", path)]

\* What an override payload asks for: an unset field leaves the base alone.
NoPatch ==
    [malformed |-> FALSE, kind |-> None, namespace |-> None, labels |-> None,
     tlabels |-> None, restartPolicy |-> None, backoffLimit |-> None]

OverridePatch(overrides) ==
    CASE overrides = "namespace" -> [NoPatch EXCEPT !.namespace = Some("patched-ns")]
      [] overrides = "labels" ->
            [NoPatch EXCEPT !.labels = Some([k \in LabelKeys |->
                                               IF k = RunIDLabel THEN "user" ELSE "y"]),
                            !.tlabels = Some([k \in LabelKeys |->
                                               IF k = RunIDLabel THEN "user" ELSE Absent])]
      [] overrides = "retry" ->
            [NoPatch EXCEPT !.restartPolicy = Some("OnFailure"), !.backoffLimit = Some(6)]
      [] overrides = "pod" -> [NoPatch EXCEPT !.kind = Some("Pod")]
      [] overrides = "malformed" -> [NoPatch EXCEPT !.malformed = TRUE]
      [] OTHER -> NoPatch

MergeLabels(base, patch) ==
    IF patch = None THEN base
    ELSE Some([k \in LabelKeys |->
                 IF patch[1][k] # Absent THEN patch[1][k]
                 ELSE IF base = None THEN Absent ELSE base[1][k]])

Pick(base, patch) == IF patch = None THEN base ELSE patch[1]

\* ApplyOverrides: merges the payload over the job and returns a fresh resource,
\* which is a Job unless the payload changes its kind.
Merged(b, p) ==
    [kind |-> Pick(b.kind, p.kind),
     namespace |-> Pick(b.namespace, p.namespace),
     labels |-> MergeLabels(b.labels, p.labels),
     tlabels |-> MergeLabels(b.tlabels, p.tlabels),
     restartPolicy |-> Pick(b.restartPolicy, p.restartPolicy),
     backoffLimit |-> IF p.backoffLimit = None THEN b.backoffLimit ELSE p.backoffLimit,
     containers |-> b.containers]

ApplyOverrides(h, job, overrides) ==
    IF OverridePatch(overrides).malformed
    THEN [status |-> "err", job |-> NoJob, heap |-> h, err |-> Err("override", overrides)]
    ELSE [status |-> "ok", err |-> NoErr]
         @@ Materialize(h, Merged(View(job, h), OverridePatch(overrides)))

(***************************************************************************)
(* The manifest composition of exec_env.go.                                *)
(***************************************************************************)
getBaseJobManifest(h, fs, jobManifestPath) ==
    IF jobManifestPath = ""
    THEN [status |-> "ok", err |-> NoErr] @@ GetGenericJob(h)
    ELSE LoadFromPath(h, fs, jobManifestPath)

\* Line 204 asserts the type of the patched resource without the two-value
\* form: a resource that is no *batchv1.Job makes the assertion panic.
applyOverrides(h, job, overrides) ==
    IF overrides = ""
    THEN [status |-> "ok", job |-> job, heap |-> h, err |-> NoErr]
    ELSE IF ApplyOverrides(h, job, overrides).status = "ok"
            /\ ApplyOverrides(h, job, overrides).job.kind # "Job"
         THEN [status |-> "panic", job |-> NoJob, heap |-> h, err |-> NoErr]
         ELSE ApplyOverrides(h, job, overrides)

\* setDefaultValues writes through the job pointer: a nil label map is
\* replaced by a new one, the run-id entries are written in place, util.Ptr
\* allocates a new int32 for the backoff limit.
LabelsRef(h, job) == IF job.labels = NilRef THEN Len(h.maps) + 1 ELSE job.labels
TLabelsRef(h, job) ==
    IF job.tlabels # NilRef THEN job.tlabels
    ELSE IF job.labels = NilRef THEN Len(h.maps) + 2 ELSE Len(h.maps) + 1
WithLabelMaps(h, job) ==
    h.maps \o (IF job.labels = NilRef THEN <<EmptyLabels>> ELSE <<>>)
           \o (IF job.tlabels = NilRef THEN <<EmptyLabels>> ELSE <<>>)

setDefaultValuesKeepsPolicy(e, h, job) ==
    [heap |-> [h EXCEPT
                 !.maps = [r \in DOMAIN WithLabelMaps(h, job) |->
                             IF r \in {LabelsRef(h, job), TLabelsRef(h, job)}
                             THEN [WithLabelMaps(h, job)[r] EXCEPT ![RunIDLabel] = e.runID]
                             ELSE WithLabelMaps(h, job)[r]],
                 !.ints = IF job.backoffLimit = NilRef THEN Append(@, 0) ELSE @],
     job |-> [job EXCEPT !.labels = LabelsRef(h, job),
                         !.tlabels = TLabelsRef(h, job),
                         !.namespace = IF @ = "" THEN e.namespace ELSE @,
                         !.restartPolicy = IF @ = "" THEN RestartPolicyNever ELSE @,
                         !.backoffLimit = IF @ = NilRef THEN Len(h.ints) + 1 ELSE @]]

setDefaultValuesKeepsRunID(e, h, job) ==
    [heap |-> [h EXCEPT
                 !.maps = [r \in DOMAIN WithLabelMaps(h, job) |->
                             IF /\ r \in {LabelsRef(h, job), TLabelsRef(h, job)}
                                /\ WithLabelMaps(h, job)[r][RunIDLabel] = Absent
                             THEN [WithLabelMaps(h, job)[r] EXCEPT ![RunIDLabel] = e.runID]
                             ELSE WithLabelMaps(h, job)[r]],
                 !.ints = Append(@, 0)],
     job |-> [job EXCEPT !.labels = LabelsRef(h, job),
                         !.tlabels = TLabelsRef(h, job),
                         !.namespace = IF @ = "" THEN e.namespace ELSE @,
                         !.restartPolicy = RestartPolicyNever,
                         !.backoffLimit = Len(h.ints) + 1]]

setDefaultValues(e, h, job) ==
    [heap |-> [h EXCEPT
                 !.maps = [r \in DOMAIN WithLabelMaps(h, job) |->
                             IF r \in {LabelsRef(h, job), TLabelsRef(h, job)}
                             THEN [WithLabelMaps(h, job)[r] EXCEPT ![RunIDLabel] = e.runID]
                             ELSE WithLabelMaps(h, job)[r]],
                 !.ints = Append(@, 0)],
     job |-> [job EXCEPT !.labels = LabelsRef(h, job),
                         !.tlabels = TLabelsRef(h, job),
                         !.namespace = IF @ = "" THEN e.namespace ELSE @,
                         !.restartPolicy = RestartPolicyNever,
                         !.backoffLimit = Len(h.ints) + 1]]

(***************************************************************************)
(* createTasks and the constructors it calls.                              *)
(***************************************************************************)
\* NewTask keeps what it is given; the manifest arrives by value (`*jobManifest`),
\* a copy of the struct that carries the same map, pointer and slice references.
NewTask(cCfg, kubectl, namespace, art, manifest) ==
    [cfg |-> cCfg, kubectl |-> kubectl, namespace |-> namespace,
     artifact |-> art, jobManifest |-> manifest]

NewAction(name, timeout, isFailFast, ts) ==
    [name |-> name, timeout |-> timeout, isFailFast |-> isFailFast, tasks |-> ts]

createTasksTracksBuildTag(e, cfg, jobManifest, built) ==
    [ts |-> [k \in DOMAIN cfg.Containers |->
                NewTask(cfg.Containers[k], e.kubectl, e.namespace,
                        getArtifactToDeploy(built, cfg.Containers[k]), jobManifest)],
     toTrack |-> [k \in DOMAIN cfg.Containers |->
                    getArtifactToDeploy(built, cfg.Containers[k])]]

createTasksReversed(e, cfg, jobManifest, built) ==
    LET n == Len(cfg.Containers)
    IN [ts |-> [k \in DOMAIN cfg.Containers |->
                   NewTask(cfg.Containers[n + 1 - k], e.kubectl, e.namespace,
                           getArtifactToDeploy(built, cfg.Containers[n + 1 - k]),
                           jobManifest)],
        toTrack |-> [k \in DOMAIN cfg.Containers |->
                       [ImageName |-> cfg.Containers[k].Image,
                        Tag |-> cfg.Containers[k].Name]]]

createTasks(e, cfg, jobManifest, built) ==
    [ts |-> [k \in DOMAIN cfg.Containers |->
                NewTask(cfg.Containers[k], e.kubectl, e.namespace,
                        getArtifactToDeploy(built, cfg.Containers[k]), jobManifest)],
     toTrack |-> [k \in DOMAIN cfg.Containers |->
                    [ImageName |-> cfg.Containers[k].Image,
                     Tag |-> cfg.Containers[k].Name]]]

(***************************************************************************)
(* Inputs.                                                                 *)
(***************************************************************************)
SeqsUpTo(S, n) == UNION {[1..k -> S] : k \in 0..n}

Container(image, name) == [Image |-> image, Name |-> name]

ActionCfg(name, containers, timeout, failFast, path, overrides) ==
    [Name |-> name, Containers |-> containers, Timeout |-> timeout,
     IsFailFast |-> failFast, JobManifestPath |-> path, Overrides |-> overrides]

NoCfg == ActionCfg("", <<>>, 0, FALSE, "", "")

\* The actions of the project file. "verify" is declared twice.
DeclaredActions ==
    << ActionCfg("verify", <<Container("app", "t0")>>, 10, FALSE, "", ""),
       ActionCfg("verify", <<Container("app", "t1"), Container("db", "t2")>>,
                 30, TRUE, "", ""),
       ActionCfg("lint", <<Container("db", "l1"), Container("app", "l2"),
                           Container("app", "l3")>>, 60, FALSE, "job.yaml", "labels"),
       ActionCfg("broken", <<Container("app", "b1")>>, 5, TRUE, "bad.yaml", ""),
       ActionCfg("patched", <<Container("app", "p1")>>, 5, TRUE, "", "malformed"),
       ActionCfg("pod", <<Container("app", "k1"), Container("db", "k2")>>,
                 5, TRUE, "job.yaml", "pod") >>

RequestNames == {"verify", "lint", "broken", "patched", "pod", "missing"}

Images == {"app", "db"}
Tags == {"v1", "v2"}
Builds == [ImageName : Images, Tag : Tags]

DeployedTemplate ==
    [kind |-> "Job", namespace |-> "", labels |-> Some([k \in LabelKeys |-> "stale"]),
     tlabels |-> None, restartPolicy |-> "Always", backoffLimit |-> Some(6),
     containers |-> <<"main">>]

ProjectFiles == [p \in {"job.yaml", "bad.yaml"} |->
                    IF p = "job.yaml" THEN Some(DeployedTemplate) ELSE None]

NoResult == [returned |-> FALSE, acs |-> <<>>, err |-> NoErr]
NoEdit == [kind |-> "none", action |-> 0, task |-> 0, before |-> <<>>]

Init ==
    /\ env \in {newExecEnv(ns, "run-1", DeclaredActions) : ns \in {"", "prod"}}
    /\ files = ProjectFiles
    /\ reachable \in BOOLEAN
    /\ bs \in SeqsUpTo(Builds, MaxBuilds)
    /\ acsNames \in SeqsUpTo(RequestNames, MaxNames)
    /\ pc = "probe"
    /\ i = 0
    /\ aCfg = NoCfg
    /\ jm = NoJob
    /\ overridden = NoView
    /\ builtArtifacts = BuiltArtifactsByName(<<>>)
    /\ acs = <<>>
    /\ toTrack = <<>>
    /\ heap = EmptyHeap
    /\ result = NoResult
    /\ probeCalls = 0
    /\ startCalls = 0
    /\ composed = <<>>
    /\ tasked = <<>>
    /\ registered = <<>>
    /\ edit = NoEdit

(***************************************************************************)
(* PrepareActions, lines 95-103.                                           *)
(***************************************************************************)
FailIfClusterIsNotReachableIgnored ==
    /\ pc = "probe"
    /\ probeCalls' = probeCalls + 1
    /\ pc' = "start"
    /\ UNCHANGED <<env, files, reachable, bs, acsNames, i, aCfg, jm, overridden,
                   builtArtifacts, acs, toTrack, heap, result, startCalls, composed,
                   tasked, registered, edit>>

FailIfClusterIsNotReachable ==
    /\ pc = "probe"
    /\ probeCalls' = probeCalls + 1
    /\ IF reachable
       THEN pc' = "start" /\ UNCHANGED result
       ELSE /\ pc' = "done"
            /\ result' = [returned |-> TRUE, acs |-> <<>>,
                          err |-> Err("unable to connect to Kubernetes", "")]
    /\ UNCHANGED <<env, files, reachable, bs, acsNames, i, aCfg, jm, overridden,
                   builtArtifacts, acs, toTrack, heap, startCalls, composed,
                   tasked, registered, edit>>

LoggerStart ==
    /\ pc = "start"
    /\ startCalls' = startCalls + 1
    /\ pc' = "index"
    /\ UNCHANGED <<env, files, reachable, bs, acsNames, i, aCfg, jm, overridden,
                   builtArtifacts, acs, toTrack, heap, result, probeCalls, composed,
                   tasked, registered, edit>>

(***************************************************************************)
(* createActions, lines 113-144, one action per step of its loop.          *)
(***************************************************************************)
IndexBuilds ==
    /\ pc = "index"
    /\ builtArtifacts' = BuiltArtifactsByName(bs)
    /\ acs' = <<>>
    /\ toTrack' = <<>>
    /\ i' = 1
    /\ pc' = "lookup"
    /\ UNCHANGED <<env, files, reachable, bs, acsNames, aCfg, jm, overridden, heap,
                   result, probeCalls, startCalls, composed, tasked, registered, edit>>

LookupActionSkipsUnknown ==
    /\ pc = "lookup"
    /\ IF i > Len(acsNames)
       THEN pc' = "register" /\ UNCHANGED <<aCfg, i>>
       ELSE IF acsNames[i] \notin DOMAIN env.acsCfgByName
            THEN pc' = "lookup" /\ i' = i + 1 /\ UNCHANGED aCfg
            ELSE pc' = "compose" /\ aCfg' = env.acsCfgByName[acsNames[i]] /\ UNCHANGED i
    /\ UNCHANGED <<env, files, reachable, bs, acsNames, jm, overridden, builtArtifacts,
                   acs, toTrack, heap, result, probeCalls, startCalls, composed, tasked,
                   registered, edit>>

LookupAction ==
    /\ pc = "lookup"
    /\ IF i > Len(acsNames)
       THEN pc' = "register" /\ UNCHANGED <<aCfg, result>>
       ELSE IF acsNames[i] \notin DOMAIN env.acsCfgByName
            THEN /\ pc' = "done"
                 /\ result' = [returned |-> TRUE, acs |-> <<>>,
                               err |-> Err("action not found for k8s execution mode",
                                           acsNames[i])]
                 /\ UNCHANGED aCfg
            ELSE /\ pc' = "compose"
                 /\ aCfg' = env.acsCfgByName[acsNames[i]]
                 /\ UNCHANGED result
    /\ UNCHANGED <<env, files, reachable, bs, acsNames, i, jm, overridden, builtArtifacts,
                   acs, toTrack, heap, probeCalls, startCalls, composed, tasked,
                   registered, edit>>

\* getJobManifest, lines 172-176: the base template.
GetBaseJobManifest ==
    /\ pc = "compose"
    /\ composed' = Append(composed, aCfg.Name)
    /\ heap' = getBaseJobManifest(heap, files, aCfg.JobManifestPath).heap
    /\ IF getBaseJobManifest(heap, files, aCfg.JobManifestPath).status = "ok"
       THEN /\ jm' = getBaseJobManifest(heap, files, aCfg.JobManifestPath).job
            /\ pc' = "override"
            /\ UNCHANGED result
       ELSE /\ result' = [returned |-> TRUE, acs |-> <<>>,
                          err |-> getBaseJobManifest(heap, files,
                                                     aCfg.JobManifestPath).err]
            /\ pc' = "done"
            /\ UNCHANGED jm
    /\ UNCHANGED <<env, files, reachable, bs, acsNames, i, aCfg, overridden,
                 builtArtifacts, acs, toTrack, probeCalls, startCalls, tasked, registered,
                 edit>>

\* getJobManifest, lines 178-181: the overrides.
ApplyOverridesToJob ==
    /\ pc = "override"
    /\ heap' = applyOverrides(heap, jm, aCfg.Overrides).heap
    /\ CASE applyOverrides(heap, jm, aCfg.Overrides).status = "ok" ->
              /\ jm' = applyOverrides(heap, jm, aCfg.Overrides).job
              /\ pc' = "defaults"
              /\ UNCHANGED result
         [] applyOverrides(heap, jm, aCfg.Overrides).status = "err" ->
              /\ result' = [returned |-> TRUE, acs |-> <<>>,
                            err |-> applyOverrides(heap, jm, aCfg.Overrides).err]
              /\ pc' = "done"
              /\ UNCHANGED jm
         [] OTHER ->
              /\ pc' = "panic"
              /\ UNCHANGED <<jm, result>>
    /\ UNCHANGED <<env, files, reachable, bs, acsNames, i, aCfg, overridden,
                 builtArtifacts, acs, toTrack, probeCalls, startCalls, composed, tasked,
                 registered, edit>>

\* getJobManifest, lines 183-184: the defaults; the manifest is returned.
SetDefaultValues ==
    /\ pc = "defaults"
    /\ overridden' = View(jm, heap)
    /\ heap' = setDefaultValues(env, heap, jm).heap
    /\ jm' = setDefaultValues(env, heap, jm).job
    /\ pc' = "tasks"
    /\ UNCHANGED <<env, files, reachable, bs, acsNames, i, aCfg, builtArtifacts, acs,
                 toTrack, result, probeCalls, startCalls, composed, tasked, registered, edit>>

BuildTasksRegistersAtOnce ==
    /\ pc = "tasks"
    /\ LET r == createTasks(env, aCfg, jm, builtArtifacts)
       IN /\ acs' = Append(acs, NewAction(aCfg.Name, aCfg.Timeout, aCfg.IsFailFast, r.ts))
          /\ toTrack' = <<>>
          /\ registered' = Append(registered, r.toTrack)
    /\ tasked' = Append(tasked, aCfg.Name)
    /\ i' = i + 1
    /\ pc' = "lookup"
    /\ UNCHANGED <<env, files, reachable, bs, acsNames, aCfg, jm, overridden,
                   builtArtifacts, heap, result, probeCalls, startCalls, composed, edit>>

BuildTasks ==
    /\ pc = "tasks"
    /\ LET r == createTasks(env, aCfg, jm, builtArtifacts)
       IN /\ acs' = Append(acs, NewAction(aCfg.Name, aCfg.Timeout, aCfg.IsFailFast, r.ts))
          /\ toTrack' = toTrack \o r.toTrack
    /\ tasked' = Append(tasked, aCfg.Name)
    /\ i' = i + 1
    /\ pc' = "lookup"
    /\ UNCHANGED <<env, files, reachable, bs, acsNames, aCfg, jm, overridden,
                   builtArtifacts, heap, result, probeCalls, startCalls, composed,
                   registered, edit>>

RegisterArtifacts ==
    /\ pc = "register"
    /\ registered' = Append(registered, toTrack)
    /\ pc' = "return"
    /\ UNCHANGED <<env, files, reachable, bs, acsNames, i, aCfg, jm, overridden,
                   builtArtifacts, acs, toTrack, heap, result, probeCalls, startCalls,
                   composed, tasked, edit>>

ReturnActions ==
    /\ pc = "return"
    /\ result' = [returned |-> TRUE, acs |-> acs, err |-> NoErr]
    /\ pc' = "done"
    /\ UNCHANGED <<env, files, reachable, bs, acsNames, i, aCfg, jm, overridden,
                   builtArtifacts, acs, toTrack, heap, probeCalls, startCalls,
                   composed, tasked, registered, edit>>

(***************************************************************************)
(* What the executing layer may do with a returned task: specialise the    *)
(* manifest the task holds.  Writes to a map entry, to a slice element or  *)
(* through a pointer go to the heap; an assignment to a field of the       *)
(* struct changes the task's own copy.                                     *)
(***************************************************************************)
EditKinds == {"label", "podLabel", "container", "backoffValue", "backoffPointer",
              "namespace"}

ManifestViews(actions, h) ==
    [a \in DOMAIN actions |->
        [t \in DOMAIN actions[a].tasks |-> View(actions[a].tasks[t].jobManifest, h)]]

EditTaskManifest ==
    /\ pc = "done"
    /\ result.returned
    /\ result.err = NoErr
    /\ \E a \in DOMAIN result.acs :
         \E t \in DOMAIN result.acs[a].tasks :
           \E kind \in EditKinds :
             LET m == result.acs[a].tasks[t].jobManifest
             IN /\ edit' = [kind |-> kind, action |-> a, task |-> t,
                            before |-> ManifestViews(result.acs, heap)]
                /\ CASE kind = "label" ->
                          /\ heap' = [heap EXCEPT !.maps[m.labels]["team"] = "edited"]
                          /\ UNCHANGED result
                     [] kind = "podLabel" ->
                          /\ heap' = [heap EXCEPT !.maps[m.tlabels]["team"] = "edited"]
                          /\ UNCHANGED result
                     [] kind = "container" ->
                          /\ heap' = [heap EXCEPT !.arrs[m.containers][1] =
                                                     result.acs[a].tasks[t].cfg.Name]
                          /\ UNCHANGED result
                     [] kind = "backoffValue" ->
                          /\ heap' = [heap EXCEPT !.ints[m.backoffLimit] = 1]
                          /\ UNCHANGED result
                     [] kind = "backoffPointer" ->
                          /\ heap' = [heap EXCEPT !.ints = Append(@, 1)]
                          /\ result' = [result EXCEPT
                                 !.acs[a].tasks[t].jobManifest.backoffLimit =
                                     Len(heap.ints) + 1]
                     [] OTHER ->
                          /\ result' = [result EXCEPT
                                 !.acs[a].tasks[t].jobManifest.namespace = "edited"]
                          /\ UNCHANGED heap
    /\ pc' = "edited"
    /\ UNCHANGED <<env, files, reachable, bs, acsNames, i, aCfg, jm, overridden,
                   builtArtifacts, acs, toTrack, probeCalls, startCalls, composed,
                   tasked, registered>>

Next ==
    \/ FailIfClusterIsNotReachable
    \/ LoggerStart
    \/ IndexBuilds
    \/ LookupAction
    \/ GetBaseJobManifest
    \/ ApplyOverridesToJob
    \/ SetDefaultValues
    \/ BuildTasks
    \/ RegisterArtifacts
    \/ ReturnActions
    \/ EditTaskManifest

Spec == Init /\ [][Next]_vars

(***************************************************************************)
(* The manifest composition on its own: getJobManifest applied to every    *)
(* template a manifest file can hold, every override and both namespaces.  *)
(***************************************************************************)
LabelChoices ==
    {None} \cup {Some(m) : m \in {f \in [LabelKeys -> {Absent, "stale", "x"}] :
                                    /\ f[RunIDLabel] \in {Absent, "stale"}
                                    /\ f["team"] \in {Absent, "x"}}}

JobTemplates ==
    [kind : {"Job"}, namespace : {"", "file-ns"}, labels : LabelChoices,
     tlabels : LabelChoices, restartPolicy : {"", "Always", RestartPolicyNever},
     backoffLimit : {None, Some(0), Some(6)}, containers : {<<"main">>}]

OverridePayloads == {"", "namespace", "labels", "retry", "pod", "malformed"}

InitManifest ==
    /\ files \in {[p \in {"job.yaml", "bad.yaml"} |->
                     IF p = "job.yaml" THEN Some(t) ELSE None] : t \in JobTemplates}
    /\ aCfg \in {ActionCfg("compose", <<Container("app", "c1")>>, 10, TRUE, path, o) :
                    path \in {"", "job.yaml", "bad.yaml"}, o \in OverridePayloads}
    /\ env \in {newExecEnv(ns, "run-1", <<aCfg>>) : ns \in {"", "prod"}}
    /\ reachable = TRUE
    /\ bs = <<>>
    /\ acsNames = <<"compose">>
    /\ pc = "compose"
    /\ i = 1
    /\ jm = NoJob
    /\ overridden = NoView
    /\ builtArtifacts = BuiltArtifactsByName(<<>>)
    /\ acs = <<>>
    /\ toTrack = <<>>
    /\ heap = EmptyHeap
    /\ result = NoResult
    /\ probeCalls = 1
    /\ startCalls = 1
    /\ composed = <<>>
    /\ tasked = <<>>
    /\ registered = <<>>
    /\ edit = NoEdit

NextManifest == GetBaseJobManifest \/ ApplyOverridesToJob \/ SetDefaultValues

SpecManifest == InitManifest /\ [][NextManifest]_vars

(***************************************************************************)
(* What the declarations say, read off the project file directly.          *)
(***************************************************************************)
Declared(n) == \E k \in DOMAIN DeclaredActions : DeclaredActions[k].Name = n
LastDeclared(n) == DeclaredActions[MaxOf({k \in DOMAIN DeclaredActions : DeclaredActions[k].Name = n})]

\* The name cannot be assembled: unknown, manifest file unreadable, override malformed.
FailsToAssemble(n) ==
    \/ ~Declared(n)
    \/ /\ LastDeclared(n).JobManifestPath # ""
       /\ files[LastDeclared(n).JobManifestPath] = None
    \/ OverridePatch(LastDeclared(n).Overrides).malformed

RECURSIVE TrackedFor(_)
TrackedFor(names) ==
    IF names = <<>> THEN <<>>
    ELSE [k \in DOMAIN LastDeclared(names[1]).Containers |->
             [ImageName |-> LastDeclared(names[1]).Containers[k].Image,
              Tag |-> LastDeclared(names[1]).Containers[k].Name]]
         \o TrackedFor(Tail(names))

Returned == result.returned
ReturnedOk == result.returned /\ result.err = NoErr
ReturnedErr == result.returned /\ result.err # NoErr

(***************************************************************************)
(* C1: RegisterArtifacts is not called before every requested name has     *)
(* been looked up, composed and had its tasks built; when some requested   *)
(* name cannot be assembled (at any position, the last included) it is     *)
(* never called, and a call that returns returns an error and no actions.  *)
(***************************************************************************)
C1_RegistrationAfterWholeBatch ==
    /\ registered # <<>> =>
          /\ i = Len(acsNames) + 1
          /\ composed = acsNames
          /\ tasked = acsNames
          /\ Len(acs) = Len(acsNames)
    /\ (\E k \in DOMAIN acsNames : FailsToAssemble(acsNames[k])) =>
          /\ registered = <<>>
          /\ Returned => (result.err # NoErr /\ result.acs = <<>>)
    /\ ReturnedErr => (registered = <<>> /\ result.acs = <<>>)

C1_Witness ==
    /\ pc = "done"
    /\ Len(acsNames) = 2
    /\ tasked = <<acsNames[1]>>
    /\ FailsToAssemble(acsNames[2])
    /\ result.err # NoErr
    /\ registered = <<>>

(***************************************************************************)
(* C2: a call that returns without error has called RegisterArtifacts      *)
(* exactly once, with one (declared image, container name) pair per        *)
(* container of every requested action, in request order and then in       *)
(* declaration order; no call registers more than once.                    *)
(***************************************************************************)
C2_RegisteredOnceWithDeclaredPairs ==
    /\ Len(registered) <= 1
    /\ ReturnedOk => registered = <<TrackedFor(acsNames)>>

C2_Witness ==
    /\ pc = "done"
    /\ ReturnedOk
    /\ acsNames = <<"lint", "verify">>
    /\ Len(registered[1]) = 5
    /\ \E k \in DOMAIN bs : bs[k].ImageName = "app"

(***************************************************************************)
(* C3: at the first requested name that the registry does not hold the     *)
(* call returns an error carrying that name and no actions; that name and  *)
(* the names after it are neither composed nor given tasks; the registry   *)
(* still holds exactly the declared configurations.                        *)
(***************************************************************************)
C3_UnknownNameStopsTheBatch ==
    /\ (pc = "done" /\ i \in DOMAIN acsNames /\ ~Declared(acsNames[i])) =>
          /\ result = [returned |-> TRUE, acs |-> <<>>,
                       err |-> Err("action not found for k8s execution mode",
                                   acsNames[i])]
          /\ composed = SubSeq(acsNames, 1, i - 1)
          /\ tasked = SubSeq(acsNames, 1, i - 1)
    /\ \A k \in DOMAIN acsNames :
          ~Declared(acsNames[k]) =>
              /\ Len(composed) < k
              /\ Len(tasked) < k
              /\ i <= k
              /\ ~ReturnedOk
    /\ DOMAIN env.acsCfgByName = {n \in RequestNames : Declared(n)}
    /\ \A n \in DOMAIN env.acsCfgByName : env.acsCfgByName[n] = LastDeclared(n)

C3_Witness ==
    /\ pc = "done"
    /\ acsNames = <<"missing", "verify">>
    /\ result.err = Err("action not found for k8s execution mode", "missing")
    /\ composed = <<>>

(***************************************************************************)
(* C4: the reachability probe comes first.  Nothing else has happened      *)
(* while it is pending; when it fails the call returns a connectivity      *)
(* error and the logger is not started, nothing is composed, no task is    *)
(* built, nothing is registered; when it succeeds the logger is started    *)
(* exactly once before the first action is looked up.                      *)
(***************************************************************************)
NothingAssembled ==
    /\ i = 0
    /\ composed = <<>>
    /\ tasked = <<>>
    /\ registered = <<>>
    /\ acs = <<>>
    /\ heap = EmptyHeap

C4_ProbeFirstThenLogger ==
    /\ probeCalls <= 1
    /\ startCalls <= 1
    /\ pc = "probe" => (probeCalls = 0 /\ startCalls = 0 /\ NothingAssembled)
    /\ (startCalls > 0 \/ ~NothingAssembled) => (probeCalls = 1 /\ reachable)
    /\ ~NothingAssembled => startCalls = 1
    /\ (probeCalls = 1 /\ ~reachable) =>
          /\ result = [returned |-> TRUE, acs |-> <<>>,
                       err |-> Err("unable to connect to Kubernetes", "")]
          /\ startCalls = 0
          /\ NothingAssembled
    /\ (probeCalls = 1 /\ reachable /\ pc # "start") => startCalls = 1

C4_Witness ==
    /\ pc = "done"
    /\ ~reachable
    /\ probeCalls = 1
    /\ Len(acsNames) = 2
    /\ result.err.kind = "unable to connect to Kubernetes"

(***************************************************************************)
(* C5: the artifact of every task names the container's declared image;    *)
(* its tag is the tag of the last built artifact with that image name, or  *)
(* the image name itself when none was built; no error stems from a        *)
(* missing build.                                                          *)
(***************************************************************************)
ExpectedTag(image) ==
    IF \E k \in DOMAIN bs : bs[k].ImageName = image
    THEN bs[MaxOf({k \in DOMAIN bs : bs[k].ImageName = image})].Tag
    ELSE image

C5_ArtifactResolution ==
    /\ \A a \in DOMAIN acs : \A t \in DOMAIN acs[a].tasks :
          acs[a].tasks[t].artifact =
              [ImageName |-> acs[a].tasks[t].cfg.Image,
               Tag |-> ExpectedTag(acs[a].tasks[t].cfg.Image)]
    /\ (Returned /\ reachable /\ \A k \in DOMAIN acsNames : ~FailsToAssemble(acsNames[k]))
          => result.err = NoErr

C5_Witness ==
    /\ pc = "done"
    /\ ReturnedOk
    /\ Len(bs) = 2
    /\ bs[1].ImageName = "app" /\ bs[2].ImageName = "app"
    /\ bs[1].Tag = "v1" /\ bs[2].Tag = "v2"
    /\ \E a \in DOMAIN result.acs : \E t \in DOMAIN result.acs[a].tasks :
          result.acs[a].tasks[t].artifact = [ImageName |-> "app", Tag |-> "v2"]
    /\ \E a \in DOMAIN result.acs : \E t \in DOMAIN result.acs[a].tasks :
          result.acs[a].tasks[t].artifact = [ImageName |-> "db", Tag |-> "db"]

(***************************************************************************)
(* C6: a composed manifest has a non-empty namespace (the one the base or  *)
(* the override set, else the environment's), non-nil label maps on the    *)
(* Job and on the Pod template, restart policy Never and backoff limit 0,  *)
(* whatever the base and the override said.                                *)
(***************************************************************************)
C6_ManifestDefaults ==
    pc = "tasks" =>
        /\ View(jm, heap).kind = "Job"
        /\ View(jm, heap).namespace # ""
        /\ env.namespace # ""
        /\ View(jm, heap).namespace =
              (IF overridden.namespace # "" THEN overridden.namespace ELSE env.namespace)
        /\ View(jm, heap).labels # None
        /\ View(jm, heap).tlabels # None
        /\ View(jm, heap).restartPolicy = RestartPolicyNever
        /\ View(jm, heap).backoffLimit = Some(0)

C6_Witness ==
    /\ pc = "tasks"
    /\ overridden.restartPolicy = "OnFailure"
    /\ overridden.backoffLimit = Some(6)
    /\ overridden.namespace = "file-ns"
    /\ overridden.labels = None
    /\ View(jm, heap).namespace = "file-ns"

(***************************************************************************)
(* C7: in a composed manifest the run-id label of the Job and of the Pod   *)
(* template is the environment's run identifier, whatever the base or the  *)
(* override gave it, and every other label is as it was before the         *)
(* defaults were applied.                                                  *)
(***************************************************************************)
LabelOf(m, k) == IF m = None THEN Absent ELSE m[1][k]

C7_RunIDOverwritten ==
    pc = "tasks" =>
        /\ LabelOf(View(jm, heap).labels, RunIDLabel) = env.runID
        /\ LabelOf(View(jm, heap).tlabels, RunIDLabel) = env.runID
        /\ \A k \in LabelKeys \ {RunIDLabel} :
              /\ LabelOf(View(jm, heap).labels, k) = LabelOf(overridden.labels, k)
              /\ LabelOf(View(jm, heap).tlabels, k) = LabelOf(overridden.tlabels, k)

C7_Witness ==
    /\ pc = "tasks"
    /\ LabelOf(overridden.labels, RunIDLabel) = "user"
    /\ LabelOf(overridden.labels, "team") = "y"
    /\ LabelOf(overridden.tlabels, RunIDLabel) = "user"
    /\ LabelOf(overridden.tlabels, "team") = "x"
    /\ LabelOf(View(jm, heap).labels, RunIDLabel) = "run-1"
    /\ LabelOf(View(jm, heap).tlabels, "team") = "x"

(***************************************************************************)
(* C8: when a non-empty override is applied and the override collaborator  *)
(* returns, without error, a resource that is not a Job, the call returns  *)
(* an error: it neither aborts nor carries the resource on as a manifest.  *)
(***************************************************************************)
NonJobOverride ==
    /\ aCfg.Overrides # ""
    /\ ApplyOverrides(heap, jm, aCfg.Overrides).status = "ok"
    /\ ApplyOverrides(heap, jm, aCfg.Overrides).job.kind # "Job"

C8_NonJobOverrideReturnsError ==
    [][(pc = "override" /\ NonJobOverride) => (pc' = "done" /\ result'.returned
                                                /\ result'.err # NoErr)]_vars

(***************************************************************************)
(* C9: after a write to any part of one task's manifest, the manifest of   *)
(* every sibling task of the same action is what it was before the write.  *)
(***************************************************************************)
C9_SiblingManifestsIndependent ==
    pc = "edited" =>
        \A t \in DOMAIN result.acs[edit.action].tasks :
            t # edit.task =>
                View(result.acs[edit.action].tasks[t].jobManifest, heap)
                    = edit.before[edit.action][t]

(***************************************************************************)
(* C10: a request whose names can all be assembled returns, without error, *)
(* one Action per requested name in request order, each with the name,     *)
(* timeout and fail-fast flag of that name's configuration and one task    *)
(* per declared container in declaration order.                            *)
(***************************************************************************)
C10_ActionsInRequestOrder ==
    /\ (Returned /\ reachable /\ \A k \in DOMAIN acsNames : ~FailsToAssemble(acsNames[k]))
          => ReturnedOk
    /\ ReturnedOk =>
          /\ Len(result.acs) = Len(acsNames)
          /\ \A k \in DOMAIN result.acs :
                /\ result.acs[k].name = acsNames[k]
                /\ result.acs[k].timeout = LastDeclared(acsNames[k]).Timeout
                /\ result.acs[k].isFailFast = LastDeclared(acsNames[k]).IsFailFast
                /\ Len(result.acs[k].tasks) = Len(LastDeclared(acsNames[k]).Containers)
                /\ \A t \in DOMAIN result.acs[k].tasks :
                      result.acs[k].tasks[t].cfg = LastDeclared(acsNames[k]).Containers[t]

C10_Witness ==
    /\ pc = "done"
    /\ ReturnedOk
    /\ acsNames = <<"verify", "verify">>
    /\ Len(result.acs) = 2
    /\ Len(result.acs[2].tasks) = 2
    /\ result.acs[1].timeout = 30

====
